---- MODULE Spec2Model ----
(***************************************************************************)
(* The segment/choice state machine of InteractiveVideoPlayer              *)
(* (src/unnamed/part_000), driven by the configuration shape of            *)
(* src/src/App.jsx.                                                        *)
(*                                                                         *)
(* Times are integers counting hundredths of a second, so that the two     *)
(* literals of the code, 0.05 (the chained watch) and 0.01 (seekTo's       *)
(* bound when the duration is unknown), are exact.  The media element      *)
(* reports its position in steps of 0.05 s.                                *)
(*                                                                         *)
(* One step of the model is one task of the browser's event loop: the      *)
(* event handler, the render it causes, and the effects of that render.    *)
(***************************************************************************)
EXTENDS Integers, Sequences, FiniteSets, TLC

VARIABLES
    cfg,                 \* which configuration the player was constructed with
    currentSourceId,     \* useState, line 94
    ready,               \* useState, line 95
    currentTime,         \* useState, line 96: the last position reported
    activeSegmentId,     \* useState, line 97
    activeHotspot,       \* useState, line 98: <<>> models null, <<h>> a hotspot
    loopCountBySeg,      \* useState, line 99: absent keys read as 0
    userChoseInSegment,  \* useState, line 100
    showOverlays,        \* useState, line 101
    activeSegment,       \* useMemo, line 110: index into segments, 0 models null
    vTime,               \* the video element's currentTime
    vLoaded,             \* the video element has metadata (its duration is known)
    vSrc,                \* the source the video element plays
    timers,              \* pending setTimeout(0) callbacks of switchSource (startAt)
    log,                 \* onEvent calls and seekTo calls of the last step, in order
    exitedSegmentId,     \* history: the segment whose tracking the last step ended
    throwsOn,            \* the onEvent prop, line 85: the event types it throws on
    mounted              \* the component is mounted

vars == <<cfg, currentSourceId, ready, currentTime, activeSegmentId, activeHotspot,
          loopCountBySeg, userChoseInSegment, showOverlays, activeSegment,
          vTime, vLoaded, vSrc, timers, log, exitedSegmentId, throwsOn, mounted>>

----------------------------------------------------------------------------
(* Units and bounds *)

\* 0.05 s, the slack of the chained watch, in hundredths of a second
Eps == 5
\* 0.01 s, what seekTo adds to the target when the duration is unknown
SeekSlack == 1
Sec == 20 * Eps

\* the most 0.05 s quanta playback advances between two timeupdate events
MaxStep == 5
\* loop counters are followed up to this value
MaxLoopCount == 3
\* the most switchSource timeouts pending at once
MaxTimers == 1

Null == "null"
Undefined == <<>>

IsNumber(x) == Len(x) = 1
\* JavaScript truthiness of an optional number: defined and not 0
Truthy(x) == Len(x) = 1 /\ x[1] # 0

Min(a, b) == IF a <= b THEN a ELSE b
Max(a, b) == IF a >= b THEN a ELSE b

----------------------------------------------------------------------------
(* Configuration shapes *)

\* { type: 'seek', start } as App.jsx writes it
SeekStart(s) ==
    [type |-> "seek", start |-> <<s>>, end |-> Undefined, to |-> Undefined,
     sourceId |-> "", startAt |-> Undefined]
\* { type: 'seek', start, end }
SeekRange(s, e) ==
    [type |-> "seek", start |-> <<s>>, end |-> <<e>>, to |-> Undefined,
     sourceId |-> "", startAt |-> Undefined]
\* { type: 'seek', to } as the CONFIG SHAPES comment documents it
SeekToShape(t) ==
    [type |-> "seek", start |-> Undefined, end |-> Undefined, to |-> <<t>>,
     sourceId |-> "", startAt |-> Undefined]
\* { type: 'switchSource', sourceId, startAt? }
SwitchTo(id, at) ==
    [type |-> "switchSource", start |-> Undefined, end |-> Undefined,
     to |-> Undefined, sourceId |-> id, startAt |-> at]

Hotspot(id, visible, action, onEnd) ==
    [id |-> id, visible |-> visible, action |-> action, onEnd |-> onEnd]

Segment(id, start, end, requireChoice, loopOnNoChoice, maxLoops, defaultAction, hotspots) ==
    [id |-> id, start |-> start, end |-> end, requireChoice |-> requireChoice,
     loopOnNoChoice |-> loopOnNoChoice, maxLoops |-> maxLoops,
     defaultAction |-> defaultAction, hotspots |-> hotspots]

\* exampleConfig's first segment with its maxLoops line enabled, on a 68 s video
ScenarioConfig ==
    [sources |-> <<"main">>,
     initialSourceId |-> "main",
     duration |-> [s \in {"main"} |-> 68 * Sec],
     scrub |-> {},
     segments |-> <<
        Segment("choice-1", 10 * Sec, 13 * Sec, TRUE, TRUE, <<2>>,
                <<SeekToShape(14 * Sec)>>,
                << Hotspot("toA", TRUE, SeekRange(14 * Sec, 16 * Sec), 67 * Sec),
                   Hotspot("toB", TRUE, SeekStart(46 * Sec), 67 * Sec) >>) >>]

\* two looping segments; the second one's hotspots jump back into a range, or
\* replay the segment's first instant and go on from its end
LoopConfig ==
    [sources |-> <<"main">>,
     initialSourceId |-> "main",
     duration |-> [s \in {"main"} |-> 18 * Eps],
     scrub |-> {0, 12 * Eps},
     segments |-> <<
        Segment("a", 2 * Eps, 4 * Eps, TRUE, TRUE, <<2>>,
                <<SeekToShape(6 * Eps)>>,
                << Hotspot("a1", TRUE, SeekRange(6 * Eps, 8 * Eps), 12 * Eps),
                   Hotspot("a2", FALSE, SeekStart(0), 0),
                   Hotspot("a3", TRUE, SeekToShape(10 * Eps), 12 * Eps) >>),
        Segment("b", 12 * Eps, 14 * Eps, TRUE, TRUE, Undefined, Undefined,
                << Hotspot("b1", TRUE, SeekRange(6 * Eps, 8 * Eps), 16 * Eps),
                   Hotspot("b2", TRUE, SeekStart(16 * Eps), 0),
                   Hotspot("b3", TRUE, SeekRange(12 * Eps, 12 * Eps), 16 * Eps) >>) >>]

\* overlapping and adjacent segments, one that does not require a choice and
\* one that does not loop; seek targets past the end and before the beginning
OverlapConfig ==
    [sources |-> <<"main">>,
     initialSourceId |-> "main",
     duration |-> [s \in {"main"} |-> 12 * Eps],
     scrub |-> {0, 5 * Eps},
     segments |-> <<
        Segment("x", 0, 4 * Eps, TRUE, TRUE, <<1>>,
                <<SeekStart(7 * Eps)>>,
                << Hotspot("x1", TRUE, SeekStart(13 * Eps), 0),
                   Hotspot("x2", TRUE, SeekStart(-2 * Eps), 0) >>),
        Segment("y", 3 * Eps, 6 * Eps, FALSE, TRUE, Undefined, Undefined,
                << Hotspot("y1", TRUE, SeekStart(7 * Eps), 0) >>),
        Segment("z", 8 * Eps, 10 * Eps, TRUE, FALSE, <<0>>,
                <<SeekStart(0)>>,
                << Hotspot("z1", TRUE, SeekRange(1 * Eps, 2 * Eps), 11 * Eps) >>) >>]

\* two sources; actions that switch source, one of them to an id that is not
\* in the catalogue
SwitchConfig ==
    [sources |-> <<"main", "alt">>,
     initialSourceId |-> "main",
     duration |-> [s \in {"main", "alt"} |-> IF s = "main" THEN 8 * Eps ELSE 9 * Eps],
     scrub |-> {0},
     segments |-> <<
        Segment("s", 2 * Eps, 4 * Eps, TRUE, TRUE, <<1>>,
                <<SwitchTo("alt", <<3 * Eps>>)>>,
                << Hotspot("toAlt", TRUE, SwitchTo("alt", Undefined), 0),
                   Hotspot("toGhost", TRUE, SwitchTo("ghost", <<1 * Eps>>), 0),
                   Hotspot("range", TRUE, SeekRange(5 * Eps, 6 * Eps), 7 * Eps) >>) >>]

Configs == <<ScenarioConfig, LoopConfig, OverlapConfig, SwitchConfig>>

Config == Configs[cfg]
Segments == Config.segments
SegmentIds == {Segments[i].id : i \in DOMAIN Segments}

----------------------------------------------------------------------------
(* Pure helpers of the component *)

\* clamp with the lower bound left out
clampFromAbove(v, min, max) == Min(max, v)

\* clamp(v, min, max), line 54
clamp(v, min, max) == Max(min, Min(max, v))

\* InSegment with the end of the interval excluded
InSegmentEndExclusive(seg, t) == t >= seg.start /\ t < seg.end

\* the predicate of activeSegment's find, lines 113-115
InSegment(seg, t) == t >= seg.start /\ t <= seg.end

\* Array.prototype.find over the segments from index i on: the first match
RECURSIVE FindSegmentAt(_, _, _)
FindSegmentAt(segs, t, i) ==
    IF i > Len(segs) THEN 0
    ELSE IF InSegment(segs[i], t) THEN i
    ELSE FindSegmentAt(segs, t, i + 1)

\* the activeSegment memo, lines 110-118
Resolve(segs, t) == FindSegmentAt(segs, t, 1)

\* config.segments.find((s) => s.id === activeSegmentId), lines 170-172
RECURSIVE FindSegmentById(_, _, _)
FindSegmentById(segs, id, i) ==
    IF i > Len(segs) THEN 0
    ELSE IF segs[i].id = id THEN i
    ELSE FindSegmentById(segs, id, i + 1)

\* the hotspots of a segment with none filtered out
AllHotspots(seg) == seg.hotspots

\* (hotspots || []).filter((h) => h.visible !== false), lines 289-291 and 362-370
VisibleHotspots(seg) == SelectSeq(seg.hotspots, LAMBDA h : h.visible # FALSE)

\* the currentSource memo, lines 103-108: an unknown id falls back to sources[0]
ElementSource(id) ==
    IF \E i \in DOMAIN Config.sources : Config.sources[i] = id
    THEN id ELSE Config.sources[1]

Duration(src) == Config.duration[src]

\* the position seekTo assigns, line 225
SeekTarget(loaded, duration, seconds) ==
    clamp(seconds, 0, IF loaded /\ duration # 0 THEN duration ELSE seconds + SeekSlack)

\* NeedsLoop without the test of the choice flag
NeedsLoopIgnoringChoice(seg, chose) == seg.requireChoice /\ seg.loopOnNoChoice

\* NeedsLoop without the tests of requireChoice and loopOnNoChoice
NeedsLoopIgnoringFlags(seg, chose) == ~chose

\* the condition of the exit branch, lines 173-178
NeedsLoop(seg, chose) == seg.requireChoice /\ seg.loopOnNoChoice /\ ~chose

\* reachedMax, lines 196-199
reachedMax(seg, loops) == IsNumber(seg.maxLoops) /\ loops >= seg.maxLoops[1]

\* SetLoopCount without the spread of prev: the other counters are dropped
SetLoopCountDroppingPrev(prev, id, loops) ==
    [x \in DOMAIN prev |-> IF x = id THEN loops ELSE 0]

\* setLoopCountBySeg((prev) => ({ ...prev, [seg.id]: loops })), lines 183-186
SetLoopCount(prev, id, loops) == [prev EXCEPT ![id] = loops]

\* the condition of the chained boundary effect, lines 136-138
ChainDue(hot, time) ==
    /\ hot # <<>>
    /\ Truthy(hot[1].action.end)
    /\ time > hot[1].action.end[1] + Eps

----------------------------------------------------------------------------
(* What a handler or an effect does to the video element and to the outside. *)
(* A value of this record is threaded through the calls of one step:         *)
(*   t, loaded, esrc  the video element: position, has metadata, source      *)
(*   src, ready       the state set by switchSource                          *)
(*   timers, log      the timeouts registered and the calls made             *)
(*   thrown           a call of onEvent has thrown: what follows it in the   *)
(*                    handler or the effect is not executed                  *)

Entry(op, id, seg, n) == [op |-> op, id |-> id, seg |-> seg, n |-> n]

Machine ==
    [t |-> vTime, loaded |-> vLoaded, esrc |-> vSrc, src |-> currentSourceId,
     ready |-> ready, timers |-> timers, log |-> <<>>, thrown |-> FALSE]

\* onEvent(evt), as lines 160, 187, 204, 250 and 259 call it: a throw is not caught
onEvent(m, entry) ==
    IF m.thrown THEN m
    ELSE [m EXCEPT !.log = Append(@, entry), !.thrown = entry.op \in throwsOn]

\* seekTo(seconds), lines 222-229; `by` names the caller in the log
seekTo(m, seconds, by) ==
    LET t == SeekTarget(m.loaded, Duration(m.esrc), seconds)
    IN  IF m.thrown THEN m
        ELSE [m EXCEPT !.t = t, !.log = Append(@, Entry("seekTo", by, "", t))]

\* switchSource(sourceId, startAt), lines 241-254
switchSource(m, sourceId, startAt) ==
    IF m.thrown THEN m
    ELSE onEvent([m EXCEPT !.src = sourceId,
                        !.ready = FALSE,
                        !.timers = Append(@, startAt)],
              Entry("source.switch", sourceId, "", startAt))

\* performAction(action), lines 231-239
performAction(m, action) ==
    IF action.type = "seek" /\ IsNumber(action.start)
    THEN seekTo(m, action.start[1], "action")
    ELSE IF action.type = "switchSource" /\ action.sourceId # ""
    THEN switchSource(m, action.sourceId,
                      IF IsNumber(action.startAt) THEN action.startAt[1] ELSE 0)
    ELSE m

\* the render that follows a state change: a new currentSource gives the video
\* element a new src, and the element starts over, without metadata (line 337)
Commit(m) ==
    IF ElementSource(m.src) # m.esrc
    THEN [m EXCEPT !.esrc = ElementSource(m.src), !.loaded = FALSE, !.t = 0]
    ELSE m

\* the chained boundary effect, lines 135-149, run with the rendered time
ChainedEffect(m, hot, time) ==
    IF ChainDue(hot, time)
    THEN [m |-> seekTo(m, hot[1].onEnd, "chain"), activeHotspot |-> <<>>]
    ELSE [m |-> m, activeHotspot |-> hot]

\* the exit branch of the segment effect, lines 169-217
ExitEffect(m, segId, chose, counts) ==
    LET i == FindSegmentById(Segments, segId, 1)
        seg == Segments[i]
        loops == counts[seg.id] + 1
        m1 == onEvent(m, Entry("segment.loop", seg.id, "", loops))
    IN  IF i # 0 /\ NeedsLoop(seg, chose)
        THEN [m |-> IF reachedMax(seg, loops) /\ seg.defaultAction # Undefined
                    THEN LET m2 == performAction(m1, seg.defaultAction[1])
                         IN  onEvent(m2, Entry("segment.autoselect", seg.id, "", 0))
                    ELSE seekTo(m1, seg.start, "loop"),
              loopCountBySeg |-> SetLoopCount(counts, seg.id, loops)]
        ELSE [m |-> m, loopCountBySeg |-> counts]

\* the segment effect entering on every run in a segment, tracked or not
SegmentEffectWithoutEntryGuard(m, a, segId, chose, overlays, counts) ==
    IF a # 0
    THEN [m |-> onEvent(m, Entry("segment.enter", Segments[a].id, "", 0)),
          activeSegmentId |-> Segments[a].id,
          userChoseInSegment |-> FALSE,
          showOverlays |-> TRUE,
          loopCountBySeg |-> counts]
    ELSE IF segId # Null
         THEN LET x == ExitEffect(m, segId, chose, counts)
              IN  [m |-> x.m, activeSegmentId |-> Null, userChoseInSegment |-> chose,
                   showOverlays |-> FALSE, loopCountBySeg |-> x.loopCountBySeg]
         ELSE [m |-> m, activeSegmentId |-> segId, userChoseInSegment |-> chose,
               showOverlays |-> overlays, loopCountBySeg |-> counts]

\* the segment entry/exit effect, lines 152-220, run with the rendered
\* activeSegment (index `a`, 0 for null) and the rendered state
SegmentEffect(m, a, segId, chose, overlays, counts) ==
    IF a # 0
    THEN IF segId # Segments[a].id
         THEN [m |-> onEvent(m, Entry("segment.enter", Segments[a].id, "", 0)),
               activeSegmentId |-> Segments[a].id,
               userChoseInSegment |-> FALSE,
               showOverlays |-> TRUE,
               loopCountBySeg |-> counts]
         ELSE [m |-> m, activeSegmentId |-> segId, userChoseInSegment |-> chose,
               showOverlays |-> overlays, loopCountBySeg |-> counts]
    ELSE IF segId # Null
         THEN LET x == ExitEffect(m, segId, chose, counts)
              IN  [m |-> x.m, activeSegmentId |-> Null, userChoseInSegment |-> chose,
                   showOverlays |-> FALSE, loopCountBySeg |-> x.loopCountBySeg]
         ELSE [m |-> m, activeSegmentId |-> segId, userChoseInSegment |-> chose,
               showOverlays |-> overlays, loopCountBySeg |-> counts]

----------------------------------------------------------------------------
(* The state machine *)

\* the state a step leaves behind in the video element and outside
Apply(m) ==
    /\ vTime' = m.t
    /\ vLoaded' = m.loaded
    /\ vSrc' = m.esrc
    /\ currentSourceId' = m.src
    /\ ready' = m.ready
    /\ timers' = m.timers
    /\ log' = m.log
    /\ Len(m.timers) <= MaxTimers

\* the subscribers a player may be given: each throws on one event type or
\* on none
Subscribers ==
    {{}} \cup {{op} : op \in {"segment.enter", "segment.loop", "segment.autoselect",
                              "source.switch", "hotspot.click"}}

\* the component after its first render and the effects of that render, given
\* a subscriber; an effect that throws unmounts the component
Mount(subscriber) ==
    /\ cfg \in DOMAIN Configs
    /\ throwsOn = subscriber
    /\ LET m0 == [t |-> 0, loaded |-> FALSE,
                  esrc |-> ElementSource(Config.initialSourceId),
                  src |-> Config.initialSourceId, ready |-> FALSE,
                  timers |-> <<>>, log |-> <<>>, thrown |-> FALSE]
           a == Resolve(Segments, 0)
           s == SegmentEffect(m0, a, Null, FALSE, TRUE, [id \in SegmentIds |-> 0])
       IN  /\ mounted = ~s.m.thrown
           /\ currentSourceId = s.m.src
           /\ ready = s.m.ready
           /\ currentTime = 0
           /\ activeSegmentId = (IF s.m.thrown THEN Null ELSE s.activeSegmentId)
           /\ activeHotspot = <<>>
           /\ loopCountBySeg = s.loopCountBySeg
           /\ userChoseInSegment = s.userChoseInSegment
           /\ showOverlays = s.showOverlays
           /\ activeSegment = a
           /\ vTime = s.m.t
           /\ vLoaded = s.m.loaded
           /\ vSrc = s.m.esrc
           /\ timers = s.m.timers
           /\ log = s.m.log
           /\ exitedSegmentId = Null

\* the player as App.jsx mounts it: onEvent={() => {}}, which never throws
Init == \E subscriber \in {{}} : Mount(subscriber)

\* the player mounted with a subscriber that may throw
InitThrowing == \E subscriber \in Subscribers : Mount(subscriber)

\* onLoaded, line 126: the video element has read the metadata of its source
LoadedMetadata ==
    /\ mounted
    /\ ~vLoaded
    /\ vLoaded' = TRUE
    /\ ready' = TRUE
    /\ vTime' = clamp(vTime, 0, Duration(vSrc))
    /\ log' = <<>>
    /\ exitedSegmentId' = Null
    /\ UNCHANGED <<cfg, throwsOn, mounted, currentSourceId, currentTime,
                   activeSegmentId, activeHotspot, loopCountBySeg,
                   userChoseInSegment, showOverlays, activeSegment, vSrc,
                   timers>>

\* onTime, line 125, after playback advanced by d quanta; then the render and
\* its effects, in the order the component declares them (lines 135, 152)
Tick(d) ==
    /\ mounted
    /\ vLoaded
    /\ LET now == Min(vTime + d * Eps, Duration(vSrc))
       IN  IF now = currentTime
           THEN \* setCurrentTime with the same value: no render
                /\ vTime' = now
                /\ log' = <<>>
                /\ exitedSegmentId' = Null
                /\ UNCHANGED <<cfg, throwsOn, mounted, currentSourceId, ready,
                               currentTime, activeSegmentId, activeHotspot,
                               loopCountBySeg, userChoseInSegment, showOverlays,
                               activeSegment, vLoaded, vSrc, timers>>
           ELSE LET a == Resolve(Segments, now)
                    c == ChainedEffect([Machine EXCEPT !.t = now], activeHotspot, now)
                    s == SegmentEffect(c.m, a, activeSegmentId, userChoseInSegment,
                                       showOverlays, loopCountBySeg)
                IN  /\ currentTime' = now
                    /\ activeSegment' = a
                    /\ IF s.m.thrown
                       THEN \* the effect threw: its state updates are lost with
                            \* the component, what it did to the element stays
                            /\ mounted' = FALSE
                            /\ Apply([s.m EXCEPT !.src = currentSourceId, !.ready = ready])
                            /\ exitedSegmentId' = Null
                            /\ UNCHANGED <<activeHotspot, activeSegmentId,
                                           userChoseInSegment, showOverlays,
                                           loopCountBySeg>>
                       ELSE /\ activeHotspot' = c.activeHotspot
                            /\ activeSegmentId' = s.activeSegmentId
                            /\ userChoseInSegment' = s.userChoseInSegment
                            /\ showOverlays' = s.showOverlays
                            /\ loopCountBySeg' = s.loopCountBySeg
                            /\ \A id \in SegmentIds : s.loopCountBySeg[id] <= MaxLoopCount
                            /\ Apply(Commit(s.m))
                            /\ exitedSegmentId' = (IF s.activeSegmentId # activeSegmentId
                                                    THEN activeSegmentId ELSE Null)
                            /\ UNCHANGED mounted
                    /\ UNCHANGED <<cfg, throwsOn>>

\* onHotspotClick(hotspot, segment), lines 256-268, then the render and the
\* chained boundary effect, which runs because activeHotspot changed; `key` is
\* the digit that caused the call (0 for the pointer), noted in the log
onHotspotClick(h, seg, key) ==
    LET m0 == onEvent(Machine, Entry("hotspot.click", h.id, seg.id, key))
        m1 == Commit(performAction(m0, h.action))
        c == IF m1.thrown
             THEN \* setActiveHotspot is not reached
                  [m |-> m1, activeHotspot |-> activeHotspot]
             ELSE IF activeHotspot # <<h>>
             THEN ChainedEffect(m1, <<h>>, currentTime)
             ELSE [m |-> m1, activeHotspot |-> <<h>>]
    IN  /\ userChoseInSegment' = TRUE
        /\ showOverlays' = FALSE
        /\ activeHotspot' = c.activeHotspot
        /\ Apply(c.m)
        /\ exitedSegmentId' = Null
        /\ UNCHANGED <<cfg, throwsOn, mounted, currentTime, activeSegmentId,
                       loopCountBySeg, activeSegment>>

\* a pointer activation of the j-th rendered button, lines 348 and 403-408
PointerClick(j) ==
    /\ mounted
    /\ activeSegment # 0
    /\ showOverlays
    /\ j \in DOMAIN VisibleHotspots(Segments[activeSegment])
    /\ onHotspotClick(VisibleHotspots(Segments[activeSegment])[j],
                      Segments[activeSegment], 0)

\* handleKey, lines 285-297, for the key of digit k
handleKey(k) ==
    /\ mounted
    /\ IF /\ activeSegment # 0
          /\ showOverlays
          /\ k >= 1 /\ k <= 9
          /\ k \in DOMAIN VisibleHotspots(Segments[activeSegment])
       THEN onHotspotClick(VisibleHotspots(Segments[activeSegment])[k],
                           Segments[activeSegment], k)
       ELSE /\ log' = <<>>
            /\ exitedSegmentId' = Null
            /\ UNCHANGED <<cfg, throwsOn, mounted, currentSourceId, ready,
                           currentTime, activeSegmentId, activeHotspot,
                           loopCountBySeg, userChoseInSegment, showOverlays,
                           activeSegment, vTime, vLoaded, vSrc, timers>>

\* the setTimeout callback of switchSource, lines 244-249
TimerFire ==
    /\ mounted
    /\ timers # <<>>
    /\ vTime' = (IF vLoaded THEN clamp(Head(timers), 0, Duration(vSrc)) ELSE Head(timers))
    /\ timers' = Tail(timers)
    /\ log' = <<>>
    /\ exitedSegmentId' = Null
    /\ UNCHANGED <<cfg, throwsOn, mounted, currentSourceId, ready, currentTime,
                   activeSegmentId, activeHotspot, loopCountBySeg,
                   userChoseInSegment, showOverlays, activeSegment, vLoaded,
                   vSrc>>

\* the viewer moves the position with the native controls (controls, line 339)
UserScrub(t) ==
    /\ mounted
    /\ vLoaded
    /\ t \in Config.scrub
    /\ vTime' = clamp(t, 0, Duration(vSrc))
    /\ log' = <<>>
    /\ exitedSegmentId' = Null
    /\ UNCHANGED <<cfg, throwsOn, mounted, currentSourceId, ready, currentTime,
                   activeSegmentId, activeHotspot, loopCountBySeg,
                   userChoseInSegment, showOverlays, activeSegment, vLoaded,
                   vSrc, timers>>

ScrubTargets == UNION {Configs[c].scrub : c \in DOMAIN Configs}

Next ==
    \/ LoadedMetadata
    \/ \E d \in 0..MaxStep : Tick(d)
    \/ \E j \in 1..9 : PointerClick(j)
    \/ \E k \in 0..9 : handleKey(k)
    \/ TimerFire
    \/ \E t \in ScrubTargets : UserScrub(t)

Spec == Init /\ [][Next]_vars

\* the same player with a subscriber that may throw
SpecThrowing == InitThrowing /\ [][Next]_vars

----------------------------------------------------------------------------
(* Vocabulary of the properties *)

\* the configured segment with id `id` (ids are unique in Configs)
SegmentOf(id) == Segments[FindSegmentById(Segments, id, 1)]

\* the interval test of the specification, written out
Contains(seg, t) == seg.start <= t /\ t <= seg.end

\* the last step made a call logged as `op` on behalf of `id`
Logged(l, op, id) == \E i \in DOMAIN l : l[i].op = op /\ l[i].id = id
LoggedOp(l, op) == \E i \in DOMAIN l : l[i].op = op

\* the exit policy acted in the step that produced the log l
PolicyActed(l) ==
    \/ LoggedOp(l, "segment.loop")
    \/ LoggedOp(l, "segment.autoselect")
    \/ LoggedOp(l, "source.switch")
    \/ Logged(l, "seekTo", "loop")
    \/ Logged(l, "seekTo", "action")

\* a step in which the tracker leaves the segment it was in
TrackerLeaves == activeSegmentId # Null /\ activeSegmentId' # activeSegmentId

\* a step that activates a hotspot
Activates == log' # <<>> /\ log'[1].op = "hotspot.click"

\* a step that activates hotspot h of segment S
ActivatesHotspot(S, h) == Activates /\ log'[1].id = h.id /\ log'[1].seg = S.id

\* a step in which the tracker leaves S, no choice made, for no segment: the
\* exit branch of the segment effect runs for S
LeavesWithoutChoice(S) ==
    /\ activeSegmentId = S.id
    /\ S.requireChoice /\ S.loopOnNoChoice /\ ~userChoseInSegment
    /\ activeSegmentId' = Null

\* the count of S after one more no-choice exit
NextCount(S) == loopCountBySeg[S.id] + 1

\* the target of a seek action, in the shape App.jsx uses or the documented one
TargetOf(action) ==
    IF IsNumber(action.start) THEN action.start[1] ELSE action.to[1]

\* how many entries of l satisfy Test
CountLogged(l, Test(_)) == Cardinality({k \in DOMAIN l : Test(l[k])})

----------------------------------------------------------------------------
(* C9: resolve(segments, t) returns the first segment in configured order  *)
(* with start <= t <= end, both bounds inclusive; none when t lies in no   *)
(* segment; the earliest-declared one when segments overlap.               *)
ResolveReturnsFirstMatch ==
    /\ activeSegment \in 0..Len(Segments)
    /\ activeSegment # 0 =>
          /\ Contains(Segments[activeSegment], currentTime)
          /\ \A j \in 1..(activeSegment - 1) : ~Contains(Segments[j], currentTime)
    /\ activeSegment = 0 =>
          \A j \in DOMAIN Segments : ~Contains(Segments[j], currentTime)

\* the reported time lies in two overlapping segments, at the inclusive end
\* of the first, and the first is the one resolved
ResolveOverlapWitness ==
    /\ activeSegment = 1
    /\ Len(Segments) >= 2
    /\ currentTime = Segments[1].end
    /\ Contains(Segments[2], currentTime)

(* C4: in every step the loop counter of each segment id is greater than   *)
(* or equal to its previous value; it is never reset or decreased.         *)
LoopCountersNeverDecrease ==
    [][\A id \in SegmentIds : loopCountBySeg'[id] >= loopCountBySeg[id]]_vars

\* two segments have looped, one of them more than once
LoopCountersWitness ==
    \E a, b \in SegmentIds :
        a # b /\ loopCountBySeg[a] >= 2 /\ loopCountBySeg[b] >= 1

(* C6: on exit from S, if a choice was made in S, or S.requireChoice is    *)
(* false, or S.loopOnNoChoice is false, the exit policy takes no action:   *)
(* the loop counters are unchanged, no reseek, default action or source    *)
(* switch is issued, and neither segment.loop nor segment.autoselect is    *)
(* emitted.                                                                *)
ExitWithoutPolicyIsSilent ==
    [][ (/\ TrackerLeaves
         /\ \/ userChoseInSegment
            \/ ~SegmentOf(activeSegmentId).requireChoice
            \/ ~SegmentOf(activeSegmentId).loopOnNoChoice)
        => (/\ loopCountBySeg' = loopCountBySeg
            /\ ~PolicyActed(log')
            /\ currentSourceId' = currentSourceId) ]_vars

\* the tracker has just left, with no choice made, a segment that does not
\* require a choice or does not loop
ExitWithoutPolicyWitness ==
    /\ exitedSegmentId # Null
    /\ activeSegmentId = Null
    /\ ~userChoseInSegment
    /\ \/ ~SegmentOf(exitedSegmentId).requireChoice
       \/ ~SegmentOf(exitedSegmentId).loopOnNoChoice

(* C5: activating a hotspot of the active segment S, by pointer or by key, *)
(* sets userChoseInSegment and hides the overlay before any exit policy of *)
(* S is evaluated, and leaves the active segment id as it is; the flag     *)
(* stays set while S is tracked, so the exit of S that follows never       *)
(* increments the loop counter, reseeks to S.start or fires the default    *)
(* action.                                                                 *)
ChoiceIsSeenByExitPolicy ==
    [][ /\ Activates =>
            /\ log'[1].seg = activeSegmentId
            /\ userChoseInSegment'
            /\ ~showOverlays'
            /\ activeSegmentId' = activeSegmentId
            /\ loopCountBySeg' = loopCountBySeg
            /\ ~LoggedOp(log', "segment.loop")
            /\ ~LoggedOp(log', "segment.autoselect")
            /\ ~Logged(log', "seekTo", "loop")
        /\ (userChoseInSegment /\ activeSegmentId' = activeSegmentId)
              => userChoseInSegment'
        /\ (TrackerLeaves /\ userChoseInSegment) =>
            /\ loopCountBySeg' = loopCountBySeg
            /\ ~PolicyActed(log') ]_vars

\* the tracker has just left a looping, choice-required segment in which a
\* hotspot had been activated
ChoiceIsSeenWitness ==
    /\ exitedSegmentId # Null
    /\ userChoseInSegment
    /\ activeSegmentId = Null
    /\ SegmentOf(exitedSegmentId).requireChoice
    /\ SegmentOf(exitedSegmentId).loopOnNoChoice

----------------------------------------------------------------------------
(* C1: for every segment S with requireChoice and loopOnNoChoice, if no    *)
(* hotspot is activated while S is active and the clock then leaves        *)
(* [S.start, S.end], the position set by the exit policy is S.start,       *)
(* unless maxLoops has been reached for S, in which case it is the target  *)
(* of S.defaultAction.  Stated for the departures to a time in no segment  *)
(* and for default actions that seek.                                      *)
NoChoiceExitSetsStartOrDefaultTarget ==
    [][ \A i \in DOMAIN Segments :
          LET S == Segments[i]
              reached == IsNumber(S.maxLoops) /\ NextCount(S) >= S.maxLoops[1]
          IN  LeavesWithoutChoice(S) =>
                IF reached /\ S.defaultAction # Undefined
                THEN S.defaultAction[1].type = "seek"
                        => vTime' = TargetOf(S.defaultAction[1])
                ELSE vTime' = S.start ]_vars

(* C2: for a segment with requireChoice, loopOnNoChoice, maxLoops = N >= 1 *)
(* and a defaultAction, no hotspot activated: each of the first N-1        *)
(* no-choice exits reseeks to the start, the default action is dispatched  *)
(* on the exit where the count first equals N and on no earlier one, that  *)
(* exit and the later ones do not reseek to the start.  In the scenario    *)
(* (start 10, end 13, maxLoops 2, default seek to 14) the count is 1 after *)
(* the first exit, with position 10, and 2 after the second, with position *)
(* 14.                                                                     *)
DefaultActionFiresAtMaxLoops ==
    [][ /\ \A i \in DOMAIN Segments :
             LET S == Segments[i]
                 n == NextCount(S)
             IN  (/\ LeavesWithoutChoice(S)
                  /\ IsNumber(S.maxLoops) /\ S.maxLoops[1] >= 1
                  /\ S.defaultAction # Undefined) =>
                    /\ loopCountBySeg'[S.id] = n
                    /\ n < S.maxLoops[1] =>
                          /\ vTime' = S.start
                          /\ ~LoggedOp(log', "segment.autoselect")
                    /\ n >= S.maxLoops[1] =>
                          /\ ~Logged(log', "seekTo", "loop")
                          /\ S.defaultAction[1].type = "seek"
                                => vTime' = TargetOf(S.defaultAction[1])
                          /\ S.defaultAction[1].type = "switchSource"
                                => Logged(log', "source.switch",
                                          S.defaultAction[1].sourceId)
        /\ (Config = ScenarioConfig /\ LeavesWithoutChoice(Segments[1])) =>
             /\ loopCountBySeg["choice-1"] = 0 =>
                   loopCountBySeg'["choice-1"] = 1 /\ vTime' = 10 * Sec
             /\ loopCountBySeg["choice-1"] = 1 =>
                   loopCountBySeg'["choice-1"] = 2 /\ vTime' = 14 * Sec ]_vars

(* C3: the exit policy runs exactly once per physical exit: for one        *)
(* departure of the clock from [S.start, S.end] without a choice, the      *)
(* counter of S increases by exactly 1, at most one reseek or default      *)
(* action is issued, and the counters of the other segments are unchanged. *)
ExitPolicyRunsOncePerExit ==
    [][ \A i \in DOMAIN Segments :
          LET S == Segments[i]
              IsPolicyAct(e) == \/ e.op = "seekTo" /\ e.id = "loop"
                                \/ e.op = "segment.autoselect"
          IN  (/\ activeSegmentId = S.id
               /\ S.requireChoice /\ S.loopOnNoChoice /\ ~userChoseInSegment
               /\ currentTime' # currentTime
               /\ ~Contains(S, currentTime')) =>
                 /\ loopCountBySeg'[S.id] = loopCountBySeg[S.id] + 1
                 /\ \A id \in SegmentIds \ {S.id} :
                       loopCountBySeg'[id] = loopCountBySeg[id]
                 /\ CountLogged(log', IsPolicyAct) <= 1 ]_vars

(* C7: activating a hotspot whose action is a ranged seek (target T,       *)
(* rangeEnd E) with follow-up F sets the position to T and registers the   *)
(* watch; afterwards the first tick whose time exceeds E + 0.05 sets the   *)
(* position to F and clears the watch, and no earlier tick does.           *)
RangedSeekThenFollowUp ==
    [][ /\ \A i \in DOMAIN Segments : \A j \in DOMAIN Segments[i].hotspots :
             LET h == Segments[i].hotspots[j]
             IN  (/\ ActivatesHotspot(Segments[i], h)
                  /\ h.action.type = "seek"
                  /\ IsNumber(h.action.start) /\ IsNumber(h.action.end)) =>
                    /\ vTime' = h.action.start[1]
                    /\ activeHotspot' = <<h>>
        /\ (/\ activeHotspot # <<>>
            /\ IsNumber(activeHotspot[1].action.end)
            /\ currentTime' # currentTime) =>
              IF currentTime' > activeHotspot[1].action.end[1] + Eps
              THEN /\ activeHotspot' = <<>>
                   /\ Logged(log', "seekTo", "chain")
                   /\ vTime' = activeHotspot[1].onEnd
              ELSE /\ activeHotspot' = activeHotspot
                   /\ ~Logged(log', "seekTo", "chain") ]_vars

(* C8: dispatching a switchSource action whose sourceId is not in the      *)
(* catalogue produces an UnknownSourceError event and leaves               *)
(* currentSourceId unchanged; playback continues on the current source.    *)
UnknownSourceIsRejected ==
    [][ \A i \in DOMAIN Segments : \A j \in DOMAIN Segments[i].hotspots :
          LET h == Segments[i].hotspots[j]
          IN  (/\ ActivatesHotspot(Segments[i], h)
               /\ h.action.type = "switchSource"
               /\ \A k \in DOMAIN Config.sources :
                     Config.sources[k] # h.action.sourceId) =>
                 /\ currentSourceId' = currentSourceId
                 /\ vSrc' = vSrc
                 /\ LoggedOp(log', "UnknownSourceError") ]_vars

(* C10: an action of the documented shape { type: "seek", to: T }, used    *)
(* for a hotspot action or for a defaultAction, sets the playback position *)
(* to T, clamped, when it is dispatched.                                   *)
DocumentedSeekSetsPosition ==
    [][ /\ \A i \in DOMAIN Segments : \A j \in DOMAIN Segments[i].hotspots :
             LET h == Segments[i].hotspots[j]
             IN  (/\ ActivatesHotspot(Segments[i], h)
                  /\ h.action.type = "seek" /\ IsNumber(h.action.to)) =>
                    vTime' = clamp(h.action.to[1], 0, Duration(vSrc))
        /\ \A i \in DOMAIN Segments :
             LET S == Segments[i]
             IN  (/\ LeavesWithoutChoice(S)
                  /\ IsNumber(S.maxLoops) /\ NextCount(S) >= S.maxLoops[1]
                  /\ S.defaultAction # Undefined
                  /\ S.defaultAction[1].type = "seek"
                  /\ IsNumber(S.defaultAction[1].to)) =>
                    vTime' = clamp(S.defaultAction[1].to[1], 0, Duration(vSrc)) ]_vars

----------------------------------------------------------------------------
\* a chained boundary watch is pending: a hotspot with a range end is active
WatchPending(hot) == hot # <<>> /\ Truthy(hot[1].action.end)

(* C11: whenever the source is switched, by a hotspot action or by a       *)
(* segment's default action, while a chained boundary watch is pending,    *)
(* the watch is cleared: after a source switch no pending chained action   *)
(* remains, so no follow-up seek of a watch registered on the previous     *)
(* source fires.                                                           *)
SourceSwitchClearsWatch ==
    [][ LoggedOp(log', "source.switch") => ~WatchPending(activeHotspot') ]_vars

\* the actions a configuration holds: each hotspot's and each default action
ActionsOf(c) ==
    UNION {{c.segments[i].hotspots[j].action : j \in DOMAIN c.segments[i].hotspots} :
              i \in DOMAIN c.segments}
    \cup {c.segments[i].defaultAction[1] :
            i \in {k \in DOMAIN c.segments : c.segments[k].defaultAction # Undefined}}

SourceIdsOf(c) == {c.sources[i] : i \in DOMAIN c.sources}

\* what the claim calls a valid configuration
WellFormed(c) ==
    /\ \A i, j \in DOMAIN c.segments :
          c.segments[i].id = c.segments[j].id => i = j
    /\ \A i \in DOMAIN c.segments :
          \A j, k \in DOMAIN c.segments[i].hotspots :
             c.segments[i].hotspots[j].id = c.segments[i].hotspots[k].id => j = k
    /\ \A i \in DOMAIN c.segments : c.segments[i].start < c.segments[i].end
    /\ \A a \in ActionsOf(c) :
          a.type = "switchSource" => a.sourceId \in SourceIdsOf(c)

(* C12: a configuration with duplicate segment ids, duplicate hotspot ids  *)
(* within a segment, a segment with start >= end, or an action naming a    *)
(* sourceId absent from the catalogue is rejected at construction: the     *)
(* player does not initialise and processes no tick or input, so no step   *)
(* changes anything.                                                       *)
MalformedConfigurationIsRejected ==
    [][ ~WellFormed(Config) => UNCHANGED vars ]_vars

\* a step in which the tracker moves from S directly into a different segment
MovesDirectly(S) ==
    /\ activeSegmentId = S.id
    /\ activeSegmentId' # Null /\ activeSegmentId' # S.id

(* C13: when the clock moves from an active segment S directly into a      *)
(* different segment S2, the exit policy for S is evaluated: if S requires *)
(* choice, loops on no choice and no choice was made, loopCounts[S.id] is  *)
(* incremented and the loop reseek or the default action is issued.        *)
DirectMoveEvaluatesExitPolicy ==
    [][ \A i \in DOMAIN Segments :
          LET S == Segments[i]
          IN  (/\ MovesDirectly(S)
               /\ S.requireChoice /\ S.loopOnNoChoice /\ ~userChoseInSegment) =>
                 /\ loopCountBySeg'[S.id] = NextCount(S)
                 /\ PolicyActed(log') ]_vars

(* C14: each no-choice exit evaluation of a looping segment emits exactly   *)
(* one of the two events: segment.autoselect when the default action is    *)
(* dispatched (and then no segment.loop), segment.loop when the position   *)
(* is reseeked to S.start (and then no segment.autoselect).                *)
ExitEmitsLoopOrAutoselect ==
    [][ \A i \in DOMAIN Segments :
          LET S == Segments[i]
          IN  LeavesWithoutChoice(S) =>
                 /\ Logged(log', "segment.loop", S.id)
                       # Logged(log', "segment.autoselect", S.id)
                 /\ Logged(log', "seekTo", "loop")
                       = Logged(log', "segment.loop", S.id) ]_vars

\* an entry of the log that is an onEvent call, and one that is segment.enter
IsEvent(e) == e.op # "seekTo"
IsEnter(e) == e.op = "segment.enter"

\* a tick is rendered with a time that resolves to S
TickResolvesTo(S) ==
    /\ currentTime' # currentTime
    /\ activeSegment' # 0 /\ Segments[activeSegment'].id = S.id

\* the entry into S is carried out
Entered(S) ==
    /\ activeSegmentId' = S.id
    /\ ~userChoseInSegment'
    /\ showOverlays'
    /\ CountLogged(log', IsEnter) = 1
    /\ Logged(log', "segment.enter", S.id)

\* the tracker's part of the session state is left alone and nothing is emitted
TrackerIdle ==
    /\ UNCHANGED <<currentSourceId, activeSegmentId, loopCountBySeg,
                   userChoseInSegment, showOverlays>>
    /\ CountLogged(log', IsEvent) = 0

(* C15, as stated: on each entry into a segment S (tracker not already in  *)
(* S) userChoseInActiveSegment is reset to false, the overlay is made      *)
(* visible, activeSegmentId becomes S and exactly one segment.enter{S} is  *)
(* emitted; every further tick that still resolves to S changes no session *)
(* state other than the current time, the pending chained action included, *)
(* and emits no event.                                                     *)
EntryOnceThenNoStateChange ==
    [][ \A i \in DOMAIN Segments :
          LET S == Segments[i]
          IN  /\ (TickResolvesTo(S) /\ activeSegmentId # S.id) => Entered(S)
              /\ (TickResolvesTo(S) /\ activeSegmentId = S.id) =>
                    /\ TrackerIdle
                    /\ UNCHANGED activeHotspot
                    /\ ~LoggedOp(log', "seekTo") ]_vars

(* C15, amended: on each entry into a segment S the choice flag is reset,  *)
(* the overlay is made visible, activeSegmentId becomes S and exactly one  *)
(* segment.enter{S} is emitted; every further tick that still resolves to  *)
(* S leaves the tracker's state (active segment, choice flag, overlay,     *)
(* loop counters, source) alone and emits no event, while a pending        *)
(* chained action whose range end has passed is still cleared and          *)
(* followed, and only then is a seek issued.                               *)
EntryOnceThenTrackerIdle ==
    [][ \A i \in DOMAIN Segments :
          LET S == Segments[i]
          IN  /\ (TickResolvesTo(S) /\ activeSegmentId # S.id) => Entered(S)
              /\ (TickResolvesTo(S) /\ activeSegmentId = S.id) =>
                    /\ TrackerIdle
                    /\ IF ChainDue(activeHotspot, currentTime')
                       THEN activeHotspot' = <<>> /\ Logged(log', "seekTo", "chain")
                       ELSE UNCHANGED activeHotspot /\ ~LoggedOp(log', "seekTo") ]_vars

\* a tick inside the tracked segment on which the chained watch fired
ChainFiresInsideSegmentWitness ==
    /\ activeSegmentId # Null
    /\ activeSegment # 0 /\ Segments[activeSegment].id = activeSegmentId
    /\ Logged(log, "seekTo", "chain")
    /\ CountLogged(log, IsEvent) = 0

\* the place of the j-th configured hotspot of seg among those with
\* visible != false
VisibleRank(seg, j) ==
    Cardinality({i \in 1..j : seg.hotspots[i].visible # FALSE})

(* C16: a keyboard digit k in 1..9 activates the k-th hotspot of the       *)
(* active segment counted over hotspots with visible != false in           *)
(* configured order, and only while a segment is active and its overlay is *)
(* shown; a hotspot with visible = false is never activated, a digit       *)
(* beyond the number of visible hotspots activates nothing, and once a     *)
(* choice has hidden the overlay it is shown again, and a hotspot can be   *)
(* activated again, only by the entry into a segment.                      *)
DigitActivatesVisibleHotspot ==
    [][ /\ Activates =>
            /\ activeSegment # 0
            /\ showOverlays
            /\ ~showOverlays'
            /\ LET seg == Segments[activeSegment]
               IN  /\ log'[1].seg = seg.id
                   /\ \E j \in DOMAIN seg.hotspots :
                         /\ seg.hotspots[j].id = log'[1].id
                         /\ seg.hotspots[j].visible # FALSE
                         /\ log'[1].n # 0 => VisibleRank(seg, j) = log'[1].n
        /\ (~userChoseInSegment /\ userChoseInSegment') => Activates
        /\ (activeHotspot' # activeHotspot /\ activeHotspot' # <<>>) => Activates
        /\ (~showOverlays /\ showOverlays') => LoggedOp(log', "segment.enter")
      ]_vars

\* the digit 2 has activated the third configured hotspot, the second one
\* being hidden
DigitSkipsHiddenHotspotWitness ==
    /\ log # <<>>
    /\ log[1].op = "hotspot.click" /\ log[1].n = 2
    /\ activeSegment # 0
    /\ Segments[activeSegment].hotspots[2].visible = FALSE
    /\ log[1].id = Segments[activeSegment].hotspots[3].id
    /\ ~showOverlays

\* the step runs the timeout callback of switchSource: the seek to startAt
\* and the resume of playback
SeeksToStartAt == Len(timers') < Len(timers)

(* C17: dispatching SwitchSource{sourceId, startAt} with a known sourceId  *)
(* sets currentSourceId to sourceId, marks the player not-ready and emits  *)
(* source.switch; the seek to startAt and the resume of playback happen    *)
(* only after the new source has reported loaded (ready), never before.    *)
SwitchSeeksOnlyWhenLoaded ==
    [][ /\ \A id \in SourceIdsOf(Config) :
              Logged(log', "source.switch", id) =>
                  currentSourceId' = id /\ ~ready'
        /\ SeeksToStartAt =>
              /\ vLoaded /\ ready
              /\ vSrc = currentSourceId ]_vars

\* where the claim puts the position after a seek to target T, the media
\* element having or not having reported its duration
Clamped(T) ==
    IF vLoaded
    THEN IF T < 0 THEN 0 ELSE IF T > Duration(vSrc) THEN Duration(vSrc) ELSE T
    ELSE IF T < 0 THEN 0 ELSE T

\* the hotspot whose chained watch a step follows: the one the step
\* activates, or else the one that was pending
WatchedHotspot ==
    IF Activates
    THEN LET S == SegmentOf(log'[1].seg)
         IN  S.hotspots[CHOOSE j \in DOMAIN S.hotspots : S.hotspots[j].id = log'[1].id]
    ELSE activeHotspot[1]

(* C18: every seek sets the playback position to the target clamped into   *)
(* [0, duration] when the duration is known, and to max(0, target) when    *)
(* it is unknown; whatever the target (negative, in range, beyond the      *)
(* duration), the position a seek sets is never below 0 and never above a  *)
(* known duration.                                                         *)
SeekClampsPosition ==
    [][ /\ \A k \in DOMAIN log' :
              log'[k].op = "seekTo" =>
                  /\ log'[k].n >= 0
                  /\ vLoaded => log'[k].n <= Duration(vSrc)
        /\ (log' # <<>> /\ log'[Len(log')].op = "seekTo") =>
              vTime' = log'[Len(log')].n
        /\ \A i \in DOMAIN Segments : \A j \in DOMAIN Segments[i].hotspots :
              LET S == Segments[i]
                  h == S.hotspots[j]
              IN  (/\ ActivatesHotspot(S, h)
                   /\ h.action.type = "seek" /\ IsNumber(h.action.start)) =>
                      /\ Len(log') >= 2
                      /\ log'[2] = Entry("seekTo", "action", "", Clamped(h.action.start[1]))
        /\ \A i \in DOMAIN Segments :
              LET S == Segments[i]
              IN  LeavesWithoutChoice(S) =>
                     \A k \in DOMAIN log' :
                        (log'[k].op = "seekTo" /\ log'[k].id = "loop") =>
                            log'[k].n = Clamped(S.start)
        /\ \A k \in DOMAIN log' :
              (log'[k].op = "seekTo" /\ log'[k].id = "chain") =>
                  log'[k].n = Clamped(WatchedHotspot.onEnd) ]_vars

\* a seek to a negative target has left the position at 0
NegativeSeekWitness ==
    /\ Len(log) = 2
    /\ log[1].op = "hotspot.click"
    /\ activeSegment # 0
    /\ \E j \in DOMAIN Segments[activeSegment].hotspots :
          LET h == Segments[activeSegment].hotspots[j]
          IN  /\ h.id = log[1].id
              /\ IsNumber(h.action.start) /\ h.action.start[1] < 0
    /\ log[2] = Entry("seekTo", "action", "", 0)
    /\ vTime = 0

\* a tick is rendered with a time in no segment while S is tracked and no
\* choice was made: the no-choice exit of S is due
NoChoiceExitDue(S) ==
    /\ activeSegmentId = S.id
    /\ S.requireChoice /\ S.loopOnNoChoice /\ ~userChoseInSegment
    /\ currentTime' # currentTime
    /\ activeSegment' = 0

(* C19: event emission is best-effort: if the subscriber throws on an      *)
(* event, the state transition and the seek or source switch of the        *)
(* operation that emitted it are carried out as with a subscriber that     *)
(* does not throw: the player stays mounted, a no-choice exit increments   *)
(* the loop counter once, leaves the tracker with no active segment and    *)
(* issues the reseek or the default action, an entry is recorded, and an   *)
(* activated hotspot's action is dispatched.                               *)
ThrowingSubscriberIsHarmless ==
    [][ /\ mounted'
        /\ \A i \in DOMAIN Segments :
              LET S == Segments[i]
                  reached == reachedMax(S, NextCount(S)) /\ S.defaultAction # Undefined
              IN  /\ NoChoiceExitDue(S) =>
                        /\ activeSegmentId' = Null
                        /\ loopCountBySeg'[S.id] = NextCount(S)
                        /\ IF reached
                           THEN Logged(log', "segment.autoselect", S.id)
                           ELSE Logged(log', "seekTo", "loop") /\ vTime' = S.start
                  /\ (TickResolvesTo(S) /\ activeSegmentId # S.id) =>
                        activeSegmentId' = S.id /\ showOverlays'
                  /\ \A j \in DOMAIN S.hotspots :
                        LET h == S.hotspots[j]
                        IN  ActivatesHotspot(S, h) =>
                              /\ activeHotspot' \in {<<h>>, <<>>}
                              /\ (h.action.type = "seek" /\ IsNumber(h.action.start))
                                    => Logged(log', "seekTo", "action")
                              /\ h.action.type = "switchSource"
                                    => currentSourceId' = h.action.sourceId ]_vars

(* C20: after a hotspot with a ranged seek (target T, rangeEnd E,           *)
(* follow-up F) is activated at a tracked time t0, the follow-up seek to F *)
(* does not fire before a clock tick reporting the post-seek position has  *)
(* been processed: the activation itself, whatever t0 (t0 > E + 0.05       *)
(* included), issues the seek to T only and leaves the watch pending.      *)
FollowUpWaitsForTick ==
    [][ \A i \in DOMAIN Segments : \A j \in DOMAIN Segments[i].hotspots :
          LET h == Segments[i].hotspots[j]
          IN  (/\ ActivatesHotspot(Segments[i], h)
               /\ h.action.type = "seek"
               /\ IsNumber(h.action.start) /\ IsNumber(h.action.end)) =>
                 /\ ~Logged(log', "seekTo", "chain")
                 /\ WatchPending(activeHotspot')
                 /\ log'[Len(log')] = Entry("seekTo", "action", "",
                                            Clamped(h.action.start[1])) ]_vars

====
